---- MODULE Spec2Model ----
(***************************************************************************)
(* A model of the "Not The End" companion tools.                           *)
(*                                                                         *)
(*   nte_tool_v1.py    the narrator console: a pool of face-down tiles and *)
(*                     the counted draw (NarratorSpec)                     *)
(*                     and, over the whole difficulty slider with no trait *)
(*                     chosen, the danger rule (DangerSpec)                *)
(*   nte_player_v1.py  the player's hero sheet: the test session           *)
(*                     (start_test, trait selection, confirm, cancel) and  *)
(*                     its network client (Spec)                           *)
(*                                                                         *)
(*   the narrator's server and its roster, as spec.md describes them       *)
(*                     (ServerSpec)                                        *)
(*   hero_model.py     a Hero, its dictionary and its JSON file (HeroSpec) *)
(*   nte_player_v1.py  NetworkClient statement by statement, the UI thread *)
(*                     and the receive threads interleaved (ThreadsSpec),  *)
(*                     and under a fair scheduler (ThreadsLiveSpec)        *)
(*                                                                         *)
(* The programs are separate processes; each specification moves the       *)
(* variables of one of them and leaves the others' at their initial value. *)
(***************************************************************************)
EXTENDS Integers, Sequences, FiniteSets, TLC

(***************************************************************************)
(* Bounds of the model.                                                    *)
(***************************************************************************)
\* top of traits_for_test_spinbox in the model (on_player_changed sets 8)
MaxTraitsForTest == 1
\* top of difficulty_slider in the model (the slider goes to 6)
MaxDifficulty == 3
\* top of draw_count_spinbox in the model (the spin box goes to 40)
MaxDrawCount == 5
\* hexagons on the hero sheet in the model (the sheet has 1 + 6 + 12)
NumTraits == 2
\* largest difficulty a received start_test carries in the model
MaxMsgDifficulty == 1
\* messages kept of what was transmitted on the current connection
MaxWire == 4
\* receive threads blocked on a closed socket that have not yet ended
MaxStale == 1
\* connection identifiers the narrator's server hands out in the model
MaxConnections == 2
\* events kept of what the server's receive loops saw
MaxServerEvents == 4
\* sockets the client creates (presses of Connect) in the statement-level
\* model of its threads
MaxSockets == 2

(***************************************************************************)
(* Program constants.                                                      *)
(***************************************************************************)
TILE_TYPE_SUCCESS == 1
TILE_TYPE_COMPLICATION == 2
MinDifficulty == 1
DifficultySliderTop == 6
InitialDifficulty == 3
MinDanger == 0
MaxDanger == 4
MinDrawCount == 1
\* the narrator's layout: centre, ring of 6, ring of 12
NarratorPositions == 19
\* the player's layout: centre and rings r = 1..9 of 6r positions each
PlayerPositions == 271

TileTypes == {TILE_TYPE_SUCCESS, TILE_TYPE_COMPLICATION}

(***************************************************************************)
(* Lists.                                                                  *)
(***************************************************************************)
Min(a, b) == IF a <= b THEN a ELSE b

\* [v] * n
Repeat(v, n) == [i \in 1..n |-> v]

CountOf(seq, v) == Cardinality({i \in DOMAIN seq : seq[i] = v})

\* what random.shuffle can leave in the list: every rearrangement of it
Shuffles(types) ==
    {p \in [1..Len(types) -> TileTypes] :
        \A v \in TileTypes : CountOf(p, v) = CountOf(types, v)}

VARIABLES
    \* ---- nte_tool_v1.py ----
    n_traits,             \* traits_for_test_spinbox.value()
    n_difficulty,         \* difficulty_slider.value()
    n_danger,             \* danger_slider.value()
    n_tiles,              \* hex_grid_view.tiles
    draw_limit,
    drawn_count,
    successes_drawn,
    complications_drawn,
    begin_enabled,        \* begin_draw_button.isEnabled()
    reset_enabled,        \* reset_button.isEnabled()
    results_display,      \* what results_display shows
    finished,             \* drawFinished emissions since the draw was started
    \* ---- nte_player_v1.py ----
    p_alive,              \* the player process has not aborted
    running,              \* client.running
    sock,                 \* client.socket: "none", "open", or "unconnected"
                          \* (created by a connect that was refused)
    connect_enabled,      \* connect_button.isEnabled()
    status_label,         \* the status status_label shows
    wire,                 \* commands transmitted on the current connection
                          \* (none once the client has closed it)
    sheet_sent,           \* the character data of the last connect or
                          \* update_sheet transmitted on it
    listening,            \* the listen_for_messages thread of the open
                          \* connection is in its loop
    stale,                \* listen_for_messages threads still blocked in recv
                          \* on a socket the client has closed since
    lost_emitted,         \* history: connection_lost emissions of disconnect()
                          \* since the latest connection was made
    last_received,        \* history: the dict the receive loop parsed in the
                          \* last step: "start_test", "start_test_in_test"
                          \* (read while the test panel was shown),
                          \* "other_command", "no_command"; "none" when the
                          \* last step was anything else
    connect_report,       \* history: the status texts the last connect logged
    last_loaded,          \* history: the list load_character read in the last
                          \* step, as {list}; {} when the last step was
                          \* anything else
    is_locked,            \* EditableHexagon.is_locked (the same for every hexagon)
    text,                 \* text_item.toPlainText() of each hexagon
    is_selectable,
    is_selected,
    current_test_data,
    panel_visible,        \* test_control_panel
    confirm_visible,      \* confirm_traits_button
    send_visible,         \* send_results_button
    stack_current,        \* main_stack.currentWidget(): "sheet" or "draw"
    p_tiles,              \* draw_view.tiles
    last_confirm,         \* history: the counts the last confirm used, while the
                          \* selection it counted stands
    test_fate,            \* history: "none", "open", "cancelled", "sent"
    results_sent          \* history: draw_result commands transmitted for this test

nvars == <<n_traits, n_difficulty, n_danger, n_tiles, draw_limit, drawn_count,
           successes_drawn, complications_drawn, begin_enabled, reset_enabled,
           results_display, finished>>

\* the client and its widgets
connection == <<running, sock, connect_enabled, status_label, wire, sheet_sent,
                listening, stale, lost_emitted, connect_report>>

cvars == <<connection, last_received>>

pvars == <<p_alive, cvars, is_locked, text, last_loaded,
           is_selectable, is_selected, current_test_data, panel_visible,
           confirm_visible, send_visible, stack_current, p_tiles, last_confirm,
           test_fate, results_sent>>

\* the narrator's server
VARIABLES
    roster,               \* connection identifier -> latest character record
    accepted,             \* connections whose receive loop runs
    server_log            \* history: the commands received and the
                          \* disconnections, as <<connection, event, data>>

svars == <<roster, accepted, server_log>>

\* hero_model.py
VARIABLES
    hero,                 \* a Hero: its __dict__, {} before it is made
    hero_file,            \* the JSON document in the sheet file, << >> when
                          \* there is no file
    saved,                \* history: the __dict__ save_to_file wrote
    loaded_hero,          \* the Hero from_dict or load_from_file returned,
                          \* {} when there is none (None)
    shares                \* its dicts are the very objects of hero

hvars == <<hero, hero_file, saved, loaded_hero, shares>>

\* NetworkClient, statement by statement: the UI thread and the
\* listen_for_messages threads
VARIABLES
    pc,                   \* where each thread is: thread 0 is the UI thread,
                          \* thread k the one started for socket k
    ui_then,              \* where send_data returns to: "idle" (a slot) or
                          \* "start" (connect, before it starts the thread)
    t_running,            \* self.running
    t_socket,             \* self.socket: 0 for None, else the socket
    t_closed,             \* the sockets close() was called on
    t_made,               \* sockets created so far
    t_connected,          \* the socket of the last connect that succeeded
    w_ref,                \* the socket each thread's recv was called on
    t_enabled,            \* connect_button.isEnabled()
    t_pending,            \* a connection_lost emitted by a thread is queued
    t_faults              \* history: what went wrong, as <<thread, fault>>

tvars == <<pc, ui_then, t_running, t_socket, t_closed, t_made, t_connected,
           w_ref, t_enabled, t_pending, t_faults>>

vars == <<nvars, pvars, svars, hvars, tvars>>

\* what a step of one program leaves alone
beside_narrator == <<pvars, svars, hvars, tvars>>
beside_player == <<nvars, svars, hvars, tvars>>
beside_server == <<nvars, pvars, hvars, tvars>>
beside_hero == <<nvars, pvars, svars, tvars>>
beside_threads == <<nvars, pvars, svars, hvars>>

(***************************************************************************)
(* nte_tool_v1.py: the tiles and the counted draw.                         *)
(***************************************************************************)
\* HexTileItem.__init__
NarratorTile(tile_type) ==
    [tile_type |-> tile_type, is_revealed |-> FALSE, is_active |-> FALSE]

\* HexTileItem.reveal
NarratorReveal(tile) ==
    IF tile.is_revealed THEN tile ELSE [tile EXCEPT !.is_revealed = TRUE]

\* HexTileItem.reset
NarratorTileReset(tile) ==
    [tile EXCEPT !.is_revealed = FALSE, !.is_active = FALSE]

\* on_tile_revealed, when the draw is complete: tile.is_active = False
NarratorDeactivateByReset(tile) == NarratorTileReset(tile)
NarratorDeactivate(tile) == [tile EXCEPT !.is_active = FALSE]

\* the list setup_grid shuffles
NarratorTileTypes(successes, complications) ==
    Repeat(TILE_TYPE_SUCCESS, successes) \o Repeat(TILE_TYPE_COMPLICATION, complications)

\* HexGridDrawView.setup_grid, given what the shuffle left: one tile for each
\* type while the layout has positions
HexGridDrawView_setup_grid(shuffled) ==
    IF Len(shuffled) = 0
    THEN << >>
    ELSE [i \in 1..Min(Len(shuffled), NarratorPositions) |-> NarratorTile(shuffled[i])]

RevealedOfType(tiles, tile_type) ==
    Cardinality({i \in DOMAIN tiles :
                    tiles[i].is_revealed /\ tiles[i].tile_type = tile_type})

RevealedCount(tiles) == Cardinality({i \in DOMAIN tiles : tiles[i].is_revealed})

\* the test of HexGridDrawView.mousePressEvent on the item under the click
ClickableAnyActive(tile) == tile.is_active
Clickable(tile) == tile.is_active /\ ~tile.is_revealed

\* the test of on_tile_revealed that ends the draw
QuotaExhaustedLate(count, limit) == count > limit
QuotaExhausted(count, limit) == count >= limit

\* the tests of begin_interactive_draw that refuse the request
ZeroQuota(num_to_draw) == num_to_draw = 0
OverQuotaOffByOne(num_to_draw, total_tiles) == num_to_draw > total_tiles + 1
OverQuota(num_to_draw, total_tiles) == num_to_draw > total_tiles

\* display_final_results: whether "The hero leaves the scene!" is shown
LeavesSceneStrict(danger_level, complications) ==
    danger_level > 0 /\ complications > danger_level
LeavesScene(danger_level, complications) ==
    /\ danger_level > 0
    /\ \/ danger_level = 1 /\ complications >= 1
       \/ danger_level = 2 /\ complications >= 2
       \/ danger_level = 3 /\ complications >= 3
       \/ danger_level = 4 /\ complications >= 4

Display(kind, a, b, leaves) == [kind |-> kind, a |-> a, b |-> b, leaves |-> leaves]

\* NarratorApp.display_final_results
display_final_results(successes, complications) ==
    Display("final", successes, complications, LeavesScene(n_danger, complications))

\* NarratorApp.update_grid_setup, with the values the widgets hold when it runs
update_grid_setup_keeps_pool(num_successes, num_complications) ==
    /\ n_tiles' = n_tiles
    /\ results_display' = Display("ready", 0, 0, FALSE)
    /\ reset_enabled' = FALSE
    /\ begin_enabled' = TRUE
update_grid_setup(num_successes, num_complications) ==
    /\ \E shuffled \in Shuffles(NarratorTileTypes(num_successes, num_complications)) :
          n_tiles' = HexGridDrawView_setup_grid(shuffled)
    /\ results_display' = Display("ready", 0, 0, FALSE)
    /\ reset_enabled' = FALSE
    /\ begin_enabled' = TRUE

NarratorInit ==
    /\ n_traits = 0
    /\ n_difficulty = InitialDifficulty
    /\ n_danger = MinDanger
    /\ n_tiles \in {HexGridDrawView_setup_grid(s) :
                       s \in Shuffles(NarratorTileTypes(0, InitialDifficulty))}
    /\ draw_limit = 0
    /\ drawn_count = 0
    /\ successes_drawn = 0
    /\ complications_drawn = 0
    /\ begin_enabled = TRUE
    /\ reset_enabled = FALSE
    /\ results_display = Display("ready", 0, 0, FALSE)
    /\ finished = << >>

\* traits_for_test_spinbox.valueChanged
SetTraits(v) ==
    /\ v # n_traits
    /\ n_traits' = v
    /\ update_grid_setup(v, n_difficulty)
    /\ UNCHANGED <<n_difficulty, n_danger, draw_limit, drawn_count,
                   successes_drawn, complications_drawn, finished>>

\* difficulty_slider.valueChanged
SetDifficulty(v) ==
    /\ v # n_difficulty
    /\ n_difficulty' = v
    /\ update_grid_setup(n_traits, v)
    /\ UNCHANGED <<n_traits, n_danger, draw_limit, drawn_count,
                   successes_drawn, complications_drawn, finished>>

\* danger_slider.valueChanged
SetDanger(v) ==
    /\ v # n_danger
    /\ n_danger' = v
    /\ update_grid_setup(n_traits, n_difficulty)
    /\ UNCHANGED <<n_traits, n_difficulty, draw_limit, drawn_count,
                   successes_drawn, complications_drawn, finished>>

\* player_list.currentItemChanged: on_player_changed. Every mock player has
\* total_traits 8, so the spin box range is the same whoever is selected.
SelectPlayer ==
    /\ n_traits' = 0
    /\ update_grid_setup(0, n_difficulty)
    /\ UNCHANGED <<n_difficulty, n_danger, draw_limit, drawn_count,
                   successes_drawn, complications_drawn, finished>>

\* HexGridDrawView.start_interactive_draw
start_interactive_draw(num_to_draw) ==
    /\ draw_limit' = num_to_draw
    /\ drawn_count' = 0
    /\ successes_drawn' = 0
    /\ complications_drawn' = 0
    /\ n_tiles' = [i \in DOMAIN n_tiles |-> [n_tiles[i] EXCEPT !.is_active = TRUE]]
    /\ finished' = << >>

\* begin_draw_button.clicked: begin_interactive_draw, with num_to_draw the
\* value the user left in draw_count_spinbox
BeginDraw(num_to_draw) ==
    /\ begin_enabled
    /\ IF ZeroQuota(num_to_draw)
       THEN /\ results_display' = Display("zero", 0, 0, FALSE)
            /\ UNCHANGED <<n_tiles, draw_limit, drawn_count, successes_drawn,
                           complications_drawn, finished, begin_enabled, reset_enabled>>
       ELSE IF OverQuota(num_to_draw, Len(n_tiles))
       THEN /\ results_display' = Display("toomany", num_to_draw, Len(n_tiles), FALSE)
            /\ UNCHANGED <<n_tiles, draw_limit, drawn_count, successes_drawn,
                           complications_drawn, finished, begin_enabled, reset_enabled>>
       ELSE /\ start_interactive_draw(num_to_draw)
            /\ results_display' = Display("prompt", num_to_draw, 0, FALSE)
            /\ begin_enabled' = FALSE
            /\ reset_enabled' = TRUE
    /\ UNCHANGED <<n_traits, n_difficulty, n_danger>>

\* HexGridDrawView.on_tile_revealed, after the tile was revealed
on_tile_revealed(tile_type, revealed_tiles) ==
    LET count == drawn_count + 1
        succ  == successes_drawn + (IF tile_type = TILE_TYPE_SUCCESS THEN 1 ELSE 0)
        comp  == complications_drawn + (IF tile_type = TILE_TYPE_SUCCESS THEN 0 ELSE 1)
    IN  /\ drawn_count' = count
        /\ successes_drawn' = succ
        /\ complications_drawn' = comp
        /\ IF QuotaExhausted(count, draw_limit)
           THEN /\ n_tiles' = [i \in DOMAIN revealed_tiles |->
                                  NarratorDeactivate(revealed_tiles[i])]
                /\ finished' = Append(finished, <<succ, comp>>)
                /\ results_display' = display_final_results(succ, comp)
           ELSE /\ n_tiles' = revealed_tiles
                /\ UNCHANGED <<finished, results_display>>

\* HexGridDrawView.mousePressEvent with tile i under the pointer
ClickTile(i) ==
    /\ i \in DOMAIN n_tiles
    /\ IF Clickable(n_tiles[i])
       THEN on_tile_revealed(n_tiles[i].tile_type,
                             [n_tiles EXCEPT ![i] = NarratorReveal(n_tiles[i])])
       ELSE UNCHANGED <<n_tiles, drawn_count, successes_drawn, complications_drawn,
                        finished, results_display>>
    /\ UNCHANGED <<n_traits, n_difficulty, n_danger, draw_limit,
                   begin_enabled, reset_enabled>>

\* reset_button.clicked: reset_test = reset_grid, then update_grid_setup
ResetTest ==
    /\ reset_enabled
    /\ drawn_count' = 0
    /\ draw_limit' = 0
    /\ successes_drawn' = 0
    /\ complications_drawn' = 0
    /\ update_grid_setup(n_traits, n_difficulty)
    /\ UNCHANGED <<n_traits, n_difficulty, n_danger, finished>>

NarratorNext ==
    \/ \E v \in 0..MaxTraitsForTest : SetTraits(v) /\ UNCHANGED beside_narrator
    \/ \E v \in MinDifficulty..MaxDifficulty : SetDifficulty(v) /\ UNCHANGED beside_narrator
    \/ \E v \in MinDanger..MaxDanger : SetDanger(v) /\ UNCHANGED beside_narrator
    \/ SelectPlayer /\ UNCHANGED beside_narrator
    \/ \E n \in MinDrawCount..MaxDrawCount : BeginDraw(n) /\ UNCHANGED beside_narrator
    \/ \E i \in 1..(MaxTraitsForTest + MaxDifficulty) : ClickTile(i) /\ UNCHANGED beside_narrator
    \/ ResetTest /\ UNCHANGED beside_narrator

\* the console with no trait chosen, over the whole range of the difficulty
\* slider: pools of Complication tiles only, which is all that
\* display_final_results reads beside the danger
DangerNext ==
    \/ \E v \in MinDifficulty..DifficultySliderTop :
          SetDifficulty(v) /\ UNCHANGED beside_narrator
    \/ \E v \in MinDanger..MaxDanger : SetDanger(v) /\ UNCHANGED beside_narrator
    \/ \E n \in MinDrawCount..DifficultySliderTop :
          BeginDraw(n) /\ UNCHANGED beside_narrator
    \/ \E i \in 1..DifficultySliderTop : ClickTile(i) /\ UNCHANGED beside_narrator
    \/ ResetTest /\ UNCHANGED beside_narrator

(***************************************************************************)
(* nte_player_v1.py: the hero sheet, the test session and the client.      *)
(***************************************************************************)
Traits == 1..NumTraits

\* the names the module binds at import (lines 1-13): random is not one
ModuleNames == {"sys", "json", "socket", "threading", "math"}
NameBound(name) == name \in ModuleNames

\* A dict is the set of its <<key, value>> items.
EmptyDict == {}
Get(dict, key, default) ==
    IF \E item \in dict : item[1] = key
    THEN (CHOOSE item \in dict : item[1] = key)[2]
    ELSE default

\* the start_test messages a narrator can send: difficulty and danger, or
\* danger alone
StartTestMessages ==
    {{<<"command", "start_test">>, <<"difficulty", d>>, <<"danger", MinDanger>>} :
        d \in 0..MaxMsgDifficulty}
    \cup {{<<"command", "start_test">>, <<"danger", MinDanger>>}}

\* other payloads that parse to a dict: another command, and no command
OtherObjects ==
    {{<<"command", "end_test">>, <<"difficulty", 1>>}, {<<"difficulty", 1>>}}

ReceivedObjects == StartTestMessages \cup OtherObjects

\* what else recv can bring the receive loop: the peer closed (empty bytes),
\* an OSError (ConnectionResetError is one), text that is not JSON
BreakingEvents == {"closed", "oserror", "bad_json"}
\* bytes that are not UTF-8 (UnicodeDecodeError) and JSON that is not a dict
\* (AttributeError at message.get): neither is in the except clause
UncaughtEvents == {"bad_utf8", "not_object"}

\* the test of listen_for_messages on a parsed dict
DispatchesAnyCommand(message) == \E item \in message : item[1] = "command"
Dispatches(message) == Get(message, "command", "None") = "start_test"

\* what a hexagon's text item can hold: nothing, the placeholder, a trait
PLACEHOLDER == "PLACEHOLDER"
TraitTexts == {"", PLACEHOLDER, "Veteran"}

\* EditableHexagon.get_text
get_text(plain) == IF plain # PLACEHOLDER THEN plain ELSE ""

\* EditableHexagon.set_locked: the text it leaves in the text item
set_locked_text(plain, locked) ==
    IF locked
    THEN (IF get_text(plain) = PLACEHOLDER THEN "" ELSE plain)
    ELSE (IF get_text(plain) = "" THEN PLACEHOLDER ELSE plain)

\* the test of EditableHexagon.mousePressEvent that toggles the selection
CanToggleAnyText(i) == is_selectable[i]
CanToggle(i) == is_selectable[i] /\ get_text(text[i]) # ""

\* HeroSheetView.get_selected_traits_count
get_selected_traits_count == Cardinality({i \in Traits : is_selected[i]})

\* HexTileItem.__init__ and reveal (player)
PlayerTile(tile_type) == [tile_type |-> tile_type, is_revealed |-> FALSE]
PlayerReveal(tile) ==
    IF tile.is_revealed THEN tile ELSE [tile EXCEPT !.is_revealed = TRUE]

\* the list DrawView.setup_grid builds before it shuffles
PlayerTileTypes(complications, successes) ==
    Repeat(TILE_TYPE_COMPLICATION, complications) \o Repeat(TILE_TYPE_SUCCESS, successes)

\* DrawView.setup_grid raises NameError where it evaluates random.shuffle
setup_grid_raises == ~NameBound("random")

\* DrawView.setup_grid after the shuffle: one tile for each type while there
\* are positions
DrawView_setup_grid(shuffled) ==
    [i \in 1..Min(Len(shuffled), PlayerPositions) |-> PlayerTile(shuffled[i])]

\* DrawView.get_results
get_results(tiles) ==
    <<RevealedOfType(tiles, TILE_TYPE_SUCCESS),
      RevealedOfType(tiles, TILE_TYPE_COMPLICATION)>>

Message(command, successes, complications) ==
    [command |-> command, successes |-> successes, complications |-> complications]

\* the message send_results builds
result_message(tiles) ==
    Message("draw_result", get_results(tiles)[1], get_results(tiles)[2])

\* NetworkClient.send_data: whether it transmits
TransmitsWithoutRunning == sock # "none"
Transmits == sock # "none" /\ running

\* PlayerApp.get_character_data, of the hexagons' texts
get_character_data_raw(texts) == texts
get_character_data(texts) == [i \in Traits |-> get_text(texts[i])]

\* the command send_character_data builds, and the one send_sheet_update builds
send_sheet_update == Message("update_sheet", 0, 0)
send_character_data_as_update == Message("update_sheet", 0, 0)
send_character_data == Message("connect", 0, 0)

\* the controller's state, read off the widgets
Phase ==
    IF ~panel_visible THEN "Idle"
    ELSE IF stack_current = "draw" THEN "PoolBuilt"
    ELSE "TraitSelectionOpen"

PlayerInit ==
    /\ p_alive = TRUE
    /\ running = FALSE
    /\ sock = "none"
    /\ connect_enabled = TRUE
    /\ status_label = "Disconnected"
    /\ wire = << >>
    /\ sheet_sent = << >>
    /\ listening = FALSE
    /\ stale = 0
    /\ lost_emitted = 0
    /\ last_received = "none"
    /\ last_loaded = {}
    /\ connect_report = << >>
    /\ is_locked = TRUE
    /\ text = [i \in Traits |-> ""]
    /\ is_selectable = [i \in Traits |-> FALSE]
    /\ is_selected = [i \in Traits |-> FALSE]
    /\ current_test_data = EmptyDict
    /\ panel_visible = FALSE
    /\ confirm_visible = TRUE
    /\ send_visible = TRUE
    /\ stack_current = "sheet"
    /\ p_tiles = << >>
    /\ last_confirm = << >>
    /\ test_fate = "none"
    /\ results_sent = << >>

\* the server listening, nobody connected
ServerInit ==
    /\ roster = EmptyDict
    /\ accepted = {}
    /\ server_log = << >>

\* what datetime.utcnow() names: the moment a Hero is made, and the later
\* moment its dictionary is taken
Made == "made"
Taken == "taken"

\* the traits of the hive kept in the model (the hive has 19)
TraitKeys == {"archetype", "q1"}

\* Hero.__init__
NewHero(now) ==
    {<<"name", "New Hero">>, <<"concept", "">>, <<"last_updated", now>>,
     <<"traits", {<<k, {<<"text", "">>, <<"tokens", 0>>}>> : k \in TraitKeys}>>,
     <<"resources", << >>>>, <<"scars", {}>>, <<"lessons", << >>>>,
     <<"misfortunes", {}>>, <<"adrenaline", 0>>, <<"confusion", 0>>}

\* the module imported: no Hero yet ({}), nothing saved or loaded
HeroInit ==
    /\ hero = {}
    /\ hero_file = << >>
    /\ saved = {}
    /\ loaded_hero = {}
    /\ shares = FALSE

UI == 0
Workers == 1..MaxSockets

\* NetworkClient.__init__, no thread started
ThreadsInit ==
    /\ pc = [t \in {UI} \cup Workers |-> IF t = UI THEN "idle" ELSE "unborn"]
    /\ ui_then = "idle"
    /\ t_running = FALSE
    /\ t_socket = 0
    /\ t_closed = {}
    /\ t_made = 0
    /\ t_connected = 0
    /\ w_ref = [w \in Workers |-> 0]
    /\ t_enabled = TRUE
    /\ t_pending = FALSE
    /\ t_faults = {}

Init == NarratorInit /\ PlayerInit /\ ServerInit /\ HeroInit /\ ThreadsInit

\* PlayerApp.on_connection_lost
on_connection_lost ==
    /\ status_label' = "Disconnected"
    /\ connect_enabled' = TRUE

\* NetworkClient.disconnect, and the slot its connection_lost reaches
disconnect ==
    /\ running' = FALSE
    /\ sock' = "none"
    /\ wire' = << >>
    /\ sheet_sent' = << >>
    /\ lost_emitted' = lost_emitted + 1
    /\ on_connection_lost

\* disconnect called by another thread than the one receiving on the open
\* connection: that thread stays blocked in its recv
strand_listener ==
    /\ listening' = FALSE
    /\ stale' = stale + (IF listening THEN 1 ELSE 0)
    /\ stale' <= MaxStale

SheetChangedKeepsConnection(n, fails) ==
    IF Transmits /\ n > 0 /\ ~fails
    THEN /\ Len(wire) + n <= MaxWire
         /\ wire' = wire \o Repeat(send_sheet_update, n)
         /\ sheet_sent' = get_character_data(text')
         /\ UNCHANGED <<running, sock, lost_emitted, status_label, connect_enabled,
                        listening, stale>>
    ELSE UNCHANGED <<wire, sheet_sent, running, sock, lost_emitted, status_label,
                     connect_enabled, listening, stale>>

\* on_sheet_change, n times: an update_sheet for each change while connected.
\* With fails, one of the sendalls raises: send_data disconnects, and the
\* later changes find the client not running.
SheetChanged(n, fails) ==
    IF Transmits /\ n > 0
    THEN IF ~fails
         THEN /\ Len(wire) + n <= MaxWire
              /\ wire' = wire \o Repeat(send_sheet_update, n)
              /\ sheet_sent' = get_character_data(text')
              /\ UNCHANGED <<running, sock, lost_emitted, status_label, connect_enabled,
                             listening, stale>>
         ELSE disconnect /\ strand_listener
    ELSE /\ ~fails
         /\ UNCHANGED <<wire, sheet_sent, running, sock, lost_emitted, status_label,
                        connect_enabled, listening, stale>>

\* what pressing Connect can meet: the connection is made, it is refused, or
\* it is made and the sendall of the connect command raises
ConnectOutcomes == {"made", "refused", "send_failed"}

\* connect_button.clicked: connect_to_server (with a port that parses)
ConnectToServer(outcome) ==
    /\ p_alive /\ connect_enabled
    /\ outcome \in ConnectOutcomes
    /\ IF outcome = "made"
       THEN /\ sock' = "open"
            /\ running' = TRUE
            /\ status_label' = "Connected"
            /\ connect_report' = <<"Connected">>
            /\ wire' = <<send_character_data>>
            /\ sheet_sent' = get_character_data(text)
            /\ listening' = TRUE
            /\ lost_emitted' = 0
            /\ UNCHANGED stale
            /\ last_received' = "none"
            /\ last_loaded' = {}
       ELSE IF outcome = "refused"
       THEN /\ sock' = "unconnected"
            /\ status_label' = "Disconnected"
            /\ connect_report' = <<"Connection failed", "Disconnected">>
            /\ last_received' = "none"
            /\ last_loaded' = {}
            /\ UNCHANGED <<running, wire, sheet_sent, stale, listening, lost_emitted>>
       \* send_data disconnects; the thread is started all the same, finds
       \* running false and disconnects again
       ELSE /\ sock' = "none"
            /\ running' = FALSE
            /\ status_label' = "Disconnected"
            /\ connect_report' = <<"Connected", "Disconnected", "Disconnected">>
            /\ wire' = << >>
            /\ sheet_sent' = << >>
            /\ lost_emitted' = 2
            /\ last_received' = "none"
            /\ last_loaded' = {}
            /\ UNCHANGED <<stale, listening>>
    \* setEnabled(False) after connect(); the connection_lost of the thread
    \* that found running false is queued and enables the button after it
    /\ connect_enabled' = (outcome = "send_failed")
    /\ UNCHANGED <<p_alive, is_locked, text, is_selectable, is_selected,
                   current_test_data, panel_visible, confirm_visible, send_visible,
                   stack_current, p_tiles, last_confirm, test_fate, results_sent>>

\* listen_for_messages leaves its loop by a break (the peer closed or reset
\* the connection, recv raised OSError, the payload is not JSON) and calls
\* disconnect
ReceiveLoopBreaks(event) ==
    /\ p_alive /\ listening
    /\ event \in BreakingEvents
    /\ listening' = FALSE
    /\ last_received' = "none"
    /\ last_loaded' = {}
    /\ disconnect
    /\ UNCHANGED <<p_alive, stale, connect_report, is_locked, text,
                   is_selectable, is_selected, current_test_data, panel_visible,
                   confirm_visible, send_visible, stack_current, p_tiles,
                   last_confirm, test_fate, results_sent>>

\* listen_for_messages meets an exception its except clause does not name:
\* the thread ends and disconnect is never called
ReceiveLoopDies(event) ==
    /\ p_alive /\ listening
    /\ event \in UncaughtEvents
    /\ listening' = FALSE
    /\ last_received' = "none"
    /\ last_loaded' = {}
    /\ UNCHANGED <<p_alive, running, sock, connect_enabled, status_label, wire,
                   sheet_sent, stale, lost_emitted, connect_report, is_locked, text,
                   is_selectable, is_selected, current_test_data, panel_visible,
                   confirm_visible, send_visible, stack_current, p_tiles,
                   last_confirm, test_fate, results_sent>>

\* the recv of a thread blocked on a closed socket returns at last: the
\* thread leaves its loop and calls disconnect on the client as it is now
StaleWorkerExit ==
    /\ p_alive /\ stale > 0
    /\ stale' = stale - 1 + (IF listening THEN 1 ELSE 0)
    /\ listening' = FALSE
    /\ last_received' = "none"
    /\ last_loaded' = {}
    /\ disconnect
    /\ UNCHANGED <<p_alive, connect_report,
                   is_locked, text, is_selectable, is_selected, current_test_data,
                   panel_visible, confirm_visible, send_visible, stack_current,
                   p_tiles, last_confirm, test_fate, results_sent>>

\* lock_button.clicked: toggle_sheet_lock; every setPlainText of set_locked
\* reports a sheet change
ToggleSheetLock(fails) ==
    /\ p_alive
    /\ is_locked' = ~is_locked
    /\ text' = [i \in Traits |-> set_locked_text(text[i], ~is_locked)]
    /\ SheetChanged(Cardinality({i \in Traits : is_locked /\ get_text(text[i]) = ""}),
                    fails)
    /\ last_received' = "none"
    /\ last_loaded' = {}
    /\ UNCHANGED <<p_alive, connect_report,
                   is_selectable, is_selected,
                   current_test_data, panel_visible, confirm_visible, send_visible,
                   stack_current, p_tiles, last_confirm, test_fate, results_sent>>

\* the user types in hexagon i of the unlocked sheet
EditTrait(i, plain, fails) ==
    /\ p_alive /\ ~is_locked /\ stack_current = "sheet"
    /\ plain # text[i]
    /\ text' = [text EXCEPT ![i] = plain]
    /\ SheetChanged(1, fails)
    /\ last_received' = "none"
    /\ last_loaded' = {}
    /\ UNCHANGED <<p_alive, connect_report,
                   is_locked, is_selectable,
                   is_selected, current_test_data, panel_visible, confirm_visible,
                   send_visible, stack_current, p_tiles, last_confirm, test_fate,
                   results_sent>>

\* the lists of a sheet file: the key missing (the empty list), one entry
\* short, as long as the sheet, one entry long; every entry a trait, or, in
\* the list as long as the sheet, the first one empty
LoadedFiles ==
    {[i \in 1..n |-> "Veteran"] :
        n \in {0, NumTraits - 1, NumTraits, NumTraits + 1}}
    \cup {[i \in Traits |-> IF i = 1 THEN "" ELSE "Veteran"]}

\* load_character: the text it passes to set_text for hexagon i
loaded_text_keeps_old(loaded, i) == IF i <= Len(loaded) THEN loaded[i] ELSE text[i]
loaded_text(loaded, i) == IF i <= Len(loaded) THEN loaded[i] ELSE ""

\* EditableHexagon.set_text: setPlainText, then set_locked(self.is_locked)
set_text(plain) == set_locked_text(plain, is_locked)

\* load_button.clicked: load_character with a file chosen. Every setPlainText
\* reports a sheet change (one for each hexagon, one more where set_locked
\* puts the placeholder), and load_character sends once more at its end.
LoadCharacter(loaded, fails) ==
    /\ p_alive
    /\ loaded \in LoadedFiles
    /\ text' = [i \in Traits |-> set_text(loaded_text(loaded, i))]
    /\ SheetChanged(NumTraits
                    + Cardinality({i \in Traits :
                                     ~is_locked /\ get_text(loaded_text(loaded, i)) = ""})
                    + 1,
                    fails)
    /\ last_received' = "none"
    /\ last_loaded' = {loaded}
    /\ UNCHANGED <<p_alive, connect_report, is_locked, is_selectable,
                   is_selected, current_test_data, panel_visible, confirm_visible,
                   send_visible, stack_current, p_tiles, last_confirm, test_fate,
                   results_sent>>

\* EditableHexagon.mousePressEvent on hexagon i
ClickTrait(i) ==
    /\ p_alive /\ stack_current = "sheet"
    /\ is_selected' = IF CanToggle(i)
                      THEN [is_selected EXCEPT ![i] = ~is_selected[i]]
                      ELSE is_selected
    /\ last_confirm' = IF CanToggle(i) THEN << >> ELSE last_confirm
    /\ last_received' = "none"
    /\ last_loaded' = {}
    /\ UNCHANGED <<p_alive, connection, is_locked, text,
                   is_selectable, current_test_data, panel_visible, confirm_visible,
                   send_visible, stack_current, p_tiles, test_fate,
                   results_sent>>

\* HeroSheetView.set_selection_mode: set_selectable on every hexagon
set_selection_mode_keeps_selected(enabled) ==
    /\ is_selectable' = [i \in Traits |-> enabled]
    /\ is_selected' = is_selected
set_selection_mode_deselecting(enabled) ==
    /\ is_selectable' = [i \in Traits |-> enabled]
    /\ is_selected' = [i \in Traits |-> FALSE]
set_selection_mode(enabled) ==
    /\ is_selectable' = [i \in Traits |-> enabled]
    /\ is_selected' = IF enabled THEN is_selected ELSE [i \in Traits |-> FALSE]

\* PlayerApp.enter_selection_mode
enter_selection_mode(test_data) ==
    /\ current_test_data' = test_data
    /\ set_selection_mode(TRUE)
    /\ panel_visible' = TRUE
    /\ confirm_visible' = TRUE
    /\ send_visible' = FALSE
    /\ stack_current' = "sheet"

\* the receive loop reads a start_test and test_initiated reaches the window
ReceiveStartTest(test_data) ==
    /\ p_alive /\ listening
    /\ enter_selection_mode(test_data)
    /\ last_confirm' = << >>
    /\ test_fate' = "open"
    /\ results_sent' = << >>
    /\ last_received' = IF panel_visible THEN "start_test_in_test" ELSE "start_test"
    /\ last_loaded' = {}
    /\ UNCHANGED <<p_alive, running, sock, connect_enabled, status_label, wire,
                   sheet_sent, listening, stale, lost_emitted, connect_report,
                   is_locked, text, p_tiles>>

\* the receive loop reads a dict it does not dispatch and goes on to the
\* next recv
ReceiveIgnored(message) ==
    /\ p_alive /\ listening
    /\ last_received' = IF \E item \in message : item[1] = "command"
                        THEN "other_command" ELSE "no_command"
    /\ last_loaded' = {}
    /\ UNCHANGED <<p_alive, running, sock, connect_enabled, status_label, wire,
                   sheet_sent, listening, stale, lost_emitted, connect_report,
                   is_locked, text, is_selectable, is_selected, current_test_data,
                   panel_visible, confirm_visible, send_visible, stack_current,
                   p_tiles, last_confirm, test_fate, results_sent>>

\* listen_for_messages with a payload that parses to a dict
ReceiveMessage(message) ==
    IF Dispatches(message) THEN ReceiveStartTest(message) ELSE ReceiveIgnored(message)

\* a message as the sender writes it: one JSON document
Document(message) == <<"{", message, "}">>

\* what one recv(4096) can return when whole messages arrive: one document,
\* or two that were written one after the other and arrive together (any
\* start_test, then one that carries the danger alone)
Chunks ==
    {Document(m) : m \in StartTestMessages}
    \cup {Document(a) \o Document({<<"command", "start_test">>, <<"danger", MinDanger>>}) :
             a \in StartTestMessages}

\* JSONDecoder.raw_decode: the first document of the text and where it ends
raw_decode(chars) ==
    IF Len(chars) >= 3 /\ chars[1] = "{" /\ chars[3] = "}"
    THEN [ok |-> TRUE, obj |-> chars[2], end |-> 4]
    ELSE [ok |-> FALSE, obj |-> EmptyDict, end |-> 1]

\* json.loads: the document, unless text follows it (JSONDecodeError,
\* "Extra data")
json_loads_first_document(chars) == raw_decode(chars)
json_loads(chars) ==
    LET decoded == raw_decode(chars)
    IN  IF decoded.ok /\ decoded.end = Len(chars) + 1
        THEN decoded
        ELSE [decoded EXCEPT !.ok = FALSE]

\* listen_for_messages with the chunk recv returned: json.loads of the whole
\* chunk, then the dispatch; JSONDecodeError breaks the loop and disconnects
ReceiveChunk(chunk) ==
    IF json_loads(chunk).ok
    THEN ReceiveMessage(json_loads(chunk).obj)
    ELSE /\ p_alive /\ listening
         /\ listening' = FALSE
         /\ last_received' = "bad_chunk"
         /\ last_loaded' = {}
         /\ disconnect
         /\ UNCHANGED <<p_alive, stale, connect_report, is_locked, text,
                        is_selectable, is_selected, current_test_data, panel_visible,
                        confirm_visible, send_visible, stack_current, p_tiles,
                        last_confirm, test_fate, results_sent>>

\* PlayerApp.cancel_test
cancel_test_keeps_data ==
    /\ set_selection_mode(FALSE)
    /\ panel_visible' = FALSE
    /\ stack_current' = "sheet"
    /\ UNCHANGED current_test_data
cancel_test ==
    /\ set_selection_mode(FALSE)
    /\ panel_visible' = FALSE
    /\ stack_current' = "sheet"
    /\ current_test_data' = EmptyDict

\* cancel_test_button.clicked
CancelTest ==
    /\ p_alive /\ panel_visible
    /\ cancel_test
    /\ test_fate' = "cancelled"
    /\ last_confirm' = << >>
    /\ last_received' = "none"
    /\ last_loaded' = {}
    /\ UNCHANGED <<p_alive, connection, is_locked, text,
                   confirm_visible, send_visible, p_tiles, results_sent>>

\* confirm_traits_button.clicked: enter_draw_mode. setup_grid clears the
\* tiles and raises at the shuffle; the exception leaves the slot, and PyQt
\* hands it to sys.excepthook: with the default hook the process then aborts
\* (qFatal), with a hook installed by whatever launched the program the event
\* loop goes on.
ConfirmTraits ==
    /\ p_alive /\ panel_visible /\ confirm_visible
    /\ LET difficulty == Get(current_test_data, "difficulty", 0)
           successes  == get_selected_traits_count
       IN  /\ last_confirm' = <<successes, difficulty>>
           /\ IF setup_grid_raises
              THEN /\ p_tiles' = << >>
                   /\ \E aborts \in BOOLEAN : p_alive' = ~aborts
                   /\ UNCHANGED <<stack_current, confirm_visible, send_visible>>
              ELSE /\ \E shuffled \in Shuffles(PlayerTileTypes(difficulty, successes)) :
                         p_tiles' = DrawView_setup_grid(shuffled)
                   /\ stack_current' = "draw"
                   /\ confirm_visible' = FALSE
                   /\ send_visible' = TRUE
                   /\ UNCHANGED p_alive
    /\ last_received' = "none"
    /\ last_loaded' = {}
    /\ UNCHANGED <<connection, is_locked, text,
                   is_selectable, is_selected, current_test_data, panel_visible,
                   test_fate, results_sent>>

\* DrawView.mousePressEvent on tile i. The draw view is shown only by the
\* end of enter_draw_mode.
DrawViewClick(i) ==
    /\ p_alive /\ stack_current = "draw"
    /\ i \in DOMAIN p_tiles
    /\ p_tiles' = [p_tiles EXCEPT ![i] = PlayerReveal(p_tiles[i])]
    /\ last_received' = "none"
    /\ last_loaded' = {}
    /\ UNCHANGED <<p_alive, connection, is_locked, text,
                   is_selectable, is_selected, current_test_data, panel_visible,
                   confirm_visible, send_visible, stack_current, last_confirm,
                   test_fate, results_sent>>

\* send_results_button.clicked: send_results. The button is shown only by
\* the end of enter_draw_mode.
SendResults ==
    /\ p_alive /\ panel_visible /\ send_visible
    /\ IF Transmits
       THEN /\ Len(wire) < MaxWire
            /\ wire' = Append(wire, result_message(p_tiles))
            /\ results_sent' = Append(results_sent, result_message(p_tiles))
       ELSE UNCHANGED <<wire, results_sent>>
    /\ cancel_test
    /\ test_fate' = "sent"
    /\ last_received' = "none"
    /\ last_loaded' = {}
    /\ UNCHANGED <<p_alive, running, sock, connect_enabled, status_label, sheet_sent,
                   listening, stale, lost_emitted, connect_report,
                   is_locked, text,
                   confirm_visible, send_visible, p_tiles, last_confirm>>

Next ==
    \/ \E outcome \in ConnectOutcomes : ConnectToServer(outcome) /\ UNCHANGED beside_player
    \/ \E event \in BreakingEvents : ReceiveLoopBreaks(event) /\ UNCHANGED beside_player
    \/ \E event \in UncaughtEvents : ReceiveLoopDies(event) /\ UNCHANGED beside_player
    \/ StaleWorkerExit /\ UNCHANGED beside_player
    \/ \E fails \in BOOLEAN : ToggleSheetLock(fails) /\ UNCHANGED beside_player
    \/ \E i \in Traits, plain \in TraitTexts, fails \in BOOLEAN :
          EditTrait(i, plain, fails) /\ UNCHANGED beside_player
    \/ \E loaded \in LoadedFiles, fails \in BOOLEAN :
          LoadCharacter(loaded, fails) /\ UNCHANGED beside_player
    \/ \E i \in Traits : ClickTrait(i) /\ UNCHANGED beside_player
    \/ \E m \in ReceivedObjects : ReceiveMessage(m) /\ UNCHANGED beside_player
    \/ \E chunk \in Chunks : ReceiveChunk(chunk) /\ UNCHANGED beside_player
    \/ ConfirmTraits /\ UNCHANGED beside_player
    \/ CancelTest /\ UNCHANGED beside_player

Spec == Init /\ [][Next]_vars

NarratorSpec == Init /\ [][NarratorNext]_vars
DangerSpec == Init /\ [][DangerNext]_vars

(***************************************************************************)
(* The narrator's server: the connection manager and its roster, as        *)
(* spec.md 4.5 describes them (nte_tool_v1.py has a fixed list of mock     *)
(* players and no networking).                                             *)
(***************************************************************************)
ConnectionIds == 1..MaxConnections

\* the character records a player can send: nothing written, or a first trait
ServerRecords ==
    {[i \in Traits |-> IF i = 1 THEN first ELSE ""] : first \in {"", "Veteran"}}

Registered(c) == \E item \in roster : item[1] = c

\* the entry of a connection, added or replaced wholesale
roster_put_keeps_entry(c, data) ==
    IF Registered(c) THEN roster ELSE roster \cup {<<c, data>>}

roster_put(c, data) ==
    {item \in roster : item[1] # c} \cup {<<c, data>>}

roster_remove(c) == {item \in roster : item[1] # c}

\* the accept loop takes a connection and starts its receive loop
ServerAccept(c) ==
    /\ c \in ConnectionIds \ accepted
    /\ accepted' = accepted \cup {c}
    /\ UNCHANGED <<roster, server_log>>

\* a receive loop reads a connect or an update_sheet; a player sends its
\* connect before any update_sheet
ServerReceive(c, command, data) ==
    /\ c \in accepted
    /\ Len(server_log) < MaxServerEvents
    /\ command \in {"connect", "update_sheet"}
    /\ command = "update_sheet" => Registered(c)
    /\ data \in ServerRecords
    /\ roster' = roster_put(c, data)
    /\ server_log' = Append(server_log, <<c, command, data>>)
    /\ UNCHANGED accepted

\* a receive loop ends: the peer closed, or the read failed
ServerConnectionLost(c) ==
    /\ c \in accepted
    /\ Len(server_log) < MaxServerEvents
    /\ roster' = roster_remove(c)
    /\ accepted' = accepted \ {c}
    /\ server_log' = Append(server_log, <<c, "disconnect", << >>>>)

ServerNext ==
    \/ \E c \in ConnectionIds : ServerAccept(c) /\ UNCHANGED beside_server
    \/ \E c \in ConnectionIds, command \in {"connect", "update_sheet"},
          data \in ServerRecords :
          ServerReceive(c, command, data) /\ UNCHANGED beside_server
    \/ \E c \in ConnectionIds : ServerConnectionLost(c) /\ UNCHANGED beside_server

ServerSpec == Init /\ [][ServerNext]_vars

(***************************************************************************)
(* hero_model.py: a Hero, its dictionary and its JSON file.                *)
(***************************************************************************)
Keys(dict) == {item[1] : item \in dict}

\* what the class gives every Hero besides the attributes __init__ sets
HeroMethods == {"to_dict", "from_dict", "save_to_file", "load_from_file"}

hasattr(obj, key) == key \in Keys(obj) \cup HeroMethods

setattr(obj, key, value) == {item \in obj : item[1] # key} \cup {<<key, value>>}

\* Hero.to_dict: the instance's own __dict__, stamped
to_dict(obj, now) == setattr(obj, "last_updated", now)

\* from_dict copying only what is not a container
from_dict_scalars_only(data, now) ==
    LET fresh == NewHero(now)
        taken == {item \in data :
                     item[1] \in {"name", "concept", "last_updated",
                                  "adrenaline", "confusion"}}
    IN {item \in fresh : item[1] \notin Keys(taken)} \cup taken

\* Hero.from_dict: a new Hero, and every item of data whose key the Hero
\* has set on it
from_dict(data, now) ==
    LET fresh == NewHero(now)
        taken == {item \in data : hasattr(fresh, item[1])}
    IN {item \in fresh : item[1] \notin Keys(taken)} \cup taken

\* json.dump of a Hero's dictionary: strings, numbers, lists of strings,
\* objects of numbers and objects of trait objects, each by its type
json_of(key, value) ==
    CASE key \in {"name", "concept", "last_updated"} -> <<"string", value>>
      [] key \in {"adrenaline", "confusion"} -> <<"number", value>>
      [] key \in {"resources", "lessons"} ->
            <<"array", [i \in DOMAIN value |-> <<"string", value[i]>>]>>
      [] key = "misfortunes" ->
            <<"object", {<<item[1], <<"number", item[2]>>>> : item \in value}>>
      [] key \in {"traits", "scars"} ->
            <<"object",
              {<<item[1],
                 <<"object",
                   {<<"text", <<"string", Get(item[2], "text", "")>>>>,
                    <<"tokens", <<"number", Get(item[2], "tokens", 0)>>>>}>>>> :
                 item \in value}>>

json_dump(dict) ==
    <<"object", {<<item[1], json_of(item[1], item[2])>> : item \in dict}>>

\* json.load: objects to dicts, arrays to lists, strings and numbers to
\* themselves
RECURSIVE json_load(_)
json_load(doc) ==
    CASE doc[1] \in {"string", "number"} -> doc[2]
      [] doc[1] = "array" -> [i \in DOMAIN doc[2] |-> json_load(doc[2][i])]
      [] doc[1] = "object" -> {<<item[1], json_load(item[2])>> : item \in doc[2]}

\* lothar = Hero()
MakeHero ==
    /\ hero = {}
    /\ hero' = NewHero(Made)
    /\ UNCHANGED <<hero_file, saved, loaded_hero, shares>>

\* lothar.name = ...
SetName(name) ==
    /\ hero # {}
    /\ hero' = setattr(hero, "name", name)
    /\ UNCHANGED <<hero_file, saved, loaded_hero, shares>>

\* lothar.resources = [...]
SetResources(resources) ==
    /\ hero # {}
    /\ hero' = setattr(hero, "resources", resources)
    /\ UNCHANGED <<hero_file, saved, loaded_hero, shares>>

\* lothar.traits[key]["text"] = ...: the dict is changed in place, and a
\* Hero made by from_dict(lothar.to_dict()) holds the same dict
SetTraitText(key, trait) ==
    LET traits == setattr(Get(hero, "traits", {}), key,
                          {<<"text", trait>>, <<"tokens", 0>>})
    IN /\ hero # {}
       /\ hero' = setattr(hero, "traits", traits)
       /\ loaded_hero' = IF shares THEN setattr(loaded_hero, "traits", traits) ELSE loaded_hero
       /\ UNCHANGED <<hero_file, saved, shares>>

\* lothar.misfortunes[name] = tokens, in place as well
SetMisfortune(name, tokens) ==
    LET misfortunes == setattr(Get(hero, "misfortunes", {}), name, tokens)
    IN /\ hero # {}
       /\ hero' = setattr(hero, "misfortunes", misfortunes)
       /\ loaded_hero' = IF shares THEN setattr(loaded_hero, "misfortunes", misfortunes)
                     ELSE loaded_hero
       /\ UNCHANGED <<hero_file, saved, shares>>

\* Hero.from_dict(lothar.to_dict())
RoundTrip ==
    /\ hero # {}
    /\ hero' = to_dict(hero, Taken)
    /\ loaded_hero' = from_dict(hero', Made)
    /\ shares' = TRUE
    /\ UNCHANGED <<hero_file, saved>>

\* what from_dict can be given: attributes missing, keys no Hero has, the
\* name of a method
HeroInputs ==
    {EmptyDict,
     {<<"name", "Lothar">>, <<"player", "Anna">>},
     {<<"adrenaline", 1>>, <<"resources", <<"Bow and arrows">>>>},
     {<<"player", "Anna">>, <<"to_dict", "Lothar">>}}

\* Hero.from_dict(data)
FromDict(data) ==
    /\ data \in HeroInputs
    /\ loaded_hero' = from_dict(data, Made)
    /\ shares' = FALSE
    /\ UNCHANGED <<hero, hero_file, saved>>

\* lothar.save_to_file(path)
SaveToFile ==
    /\ hero # {}
    /\ hero' = to_dict(hero, Taken)
    /\ hero_file' = json_dump(hero')
    /\ saved' = hero'
    /\ UNCHANGED <<loaded_hero, shares>>

\* Hero.load_from_file(path): None when there is no file
LoadFromFile ==
    /\ loaded_hero' = IF hero_file = << >> THEN {}
                       ELSE from_dict(json_load(hero_file), Made)
    /\ shares' = FALSE
    /\ UNCHANGED <<hero, hero_file, saved>>

HeroNext ==
    \/ MakeHero /\ UNCHANGED beside_hero
    \/ \E name \in {"New Hero", "Lothar"} : SetName(name) /\ UNCHANGED beside_hero
    \/ \E resources \in {<< >>, <<"Bow and arrows", "50 coins">>} :
          SetResources(resources) /\ UNCHANGED beside_hero
    \/ \E trait \in {"", "Veteran"} :
          SetTraitText("q1", trait) /\ UNCHANGED beside_hero
    \/ SetMisfortune("Hunted", 1) /\ UNCHANGED beside_hero
    \/ RoundTrip /\ UNCHANGED beside_hero
    \/ \E data \in HeroInputs : FromDict(data) /\ UNCHANGED beside_hero
    \/ SaveToFile /\ UNCHANGED beside_hero
    \/ LoadFromFile /\ UNCHANGED beside_hero

HeroSpec == Init /\ [][HeroNext]_vars

(***************************************************************************)
(* nte_player_v1.py, NetworkClient statement by statement: the UI thread   *)
(* (thread 0) and the listen_for_messages threads run interleaved, and a   *)
(* step is one read or write of self.running or self.socket.               *)
(***************************************************************************)
Go(t, place) == pc' = [pc EXCEPT ![t] = place]

\* the program has not been aborted by an exception let out of a slot
Running == pc[UI] # "aborted"

\* where the UI thread goes when send_data or disconnect returns
Return == IF ui_then = "start" THEN "start" ELSE "idle"

\* a sheet change: on_sheet_change calls send_data
SheetChange ==
    /\ pc[UI] = "idle"
    /\ Go(UI, "check") /\ ui_then' = "idle"
    /\ UNCHANGED <<t_running, t_socket, t_closed, t_made, t_connected, w_ref,
                   t_enabled, t_pending, t_faults>>

\* send_data: if not self.socket or not self.running: return
send_data_returns == t_socket = 0 \/ ~t_running

SendDataCheck ==
    /\ pc[UI] = "check"
    /\ Go(UI, IF send_data_returns THEN Return ELSE "sendall")
    /\ UNCHANGED <<ui_then, t_running, t_socket, t_closed, t_made, t_connected,
                   w_ref, t_enabled, t_pending, t_faults>>

\* send_data: self.socket.sendall(...). On None it is an AttributeError,
\* which send_data does not catch: connect's except Exception reports it,
\* a slot lets it out (the program aborts, or goes on). On a closed socket,
\* or when the peer is gone (fails), it is an OSError and send_data calls
\* disconnect.
SendDataSendall(fails) ==
    /\ pc[UI] = "sendall"
    /\ IF t_socket = 0
       THEN /\ ~fails
            /\ t_faults' = t_faults \cup {<<UI, "AttributeError">>}
            /\ IF ui_then = "start"
               THEN Go(UI, "idle") /\ t_enabled' = FALSE
               ELSE (Go(UI, "idle") \/ Go(UI, "aborted")) /\ UNCHANGED t_enabled
            /\ ui_then' = "idle"
       ELSE IF t_socket \in t_closed
       THEN /\ ~fails
            /\ t_faults' = t_faults \cup {<<UI, "closed socket">>}
            /\ Go(UI, "clear_running")
            /\ UNCHANGED <<ui_then, t_enabled>>
       ELSE /\ Go(UI, IF fails THEN "clear_running" ELSE Return)
            /\ UNCHANGED <<ui_then, t_enabled, t_faults>>
    /\ UNCHANGED <<t_running, t_socket, t_closed, t_made, t_connected, w_ref,
                   t_pending>>

\* disconnect: self.running = False
DisconnectClearRunning(t) ==
    /\ Running
    /\ pc[t] = "clear_running"
    /\ t_running' = FALSE
    /\ Go(t, "test_socket")
    /\ UNCHANGED <<ui_then, t_socket, t_closed, t_made, t_connected, w_ref,
                   t_enabled, t_pending, t_faults>>

\* disconnect: if self.socket:
DisconnectTestSocket(t) ==
    /\ Running
    /\ pc[t] = "test_socket"
    /\ Go(t, IF t_socket # 0 THEN "close" ELSE "emit")
    /\ UNCHANGED <<ui_then, t_running, t_socket, t_closed, t_made, t_connected,
                   w_ref, t_enabled, t_pending, t_faults>>

\* disconnect: self.socket.close(), on what self.socket is now; on None it
\* is an AttributeError: a listen_for_messages thread ends there, a slot
\* lets it out, connect's except Exception reports it
DisconnectClose(t) ==
    /\ Running
    /\ pc[t] = "close"
    /\ IF t_socket = 0
       THEN /\ t_faults' = t_faults \cup {<<t, "AttributeError">>}
            /\ IF t # UI
               THEN Go(t, "ended") /\ UNCHANGED <<t_enabled, ui_then>>
               ELSE /\ IF ui_then = "start"
                       THEN Go(UI, "idle") /\ t_enabled' = FALSE
                       ELSE (Go(UI, "idle") \/ Go(UI, "aborted"))
                            /\ UNCHANGED t_enabled
                    /\ ui_then' = "idle"
            /\ UNCHANGED t_closed
       ELSE /\ t_closed' = t_closed \cup {t_socket}
            /\ Go(t, "clear_socket")
            /\ UNCHANGED <<t_faults, t_enabled, ui_then>>
    /\ UNCHANGED <<t_running, t_socket, t_made, t_connected, w_ref, t_pending>>

\* disconnect: self.socket = None
DisconnectClearSocket(t) ==
    /\ Running
    /\ pc[t] = "clear_socket"
    /\ t_socket' = 0
    /\ Go(t, "emit")
    /\ UNCHANGED <<ui_then, t_running, t_closed, t_made, t_connected, w_ref,
                   t_enabled, t_pending, t_faults>>

\* disconnect: self.signals.connection_lost.emit(): on_connection_lost is
\* called at once in the UI thread, queued from another
DisconnectEmit(t) ==
    /\ Running
    /\ pc[t] = "emit"
    /\ IF t = UI
       THEN Go(UI, Return) /\ t_enabled' = TRUE /\ UNCHANGED t_pending
       ELSE Go(t, "ended") /\ t_pending' = TRUE /\ UNCHANGED t_enabled
    /\ UNCHANGED <<ui_then, t_running, t_socket, t_closed, t_made, t_connected,
                   w_ref, t_faults>>

\* the event loop delivers the queued connection_lost: on_connection_lost
OnConnectionLost ==
    /\ pc[UI] = "idle" /\ t_pending
    /\ t_pending' = FALSE
    /\ t_enabled' = TRUE
    /\ UNCHANGED <<pc, ui_then, t_running, t_socket, t_closed, t_made,
                   t_connected, w_ref, t_faults>>

\* connect_button.clicked: connect creates the socket and connects it; when
\* the connect is refused it reports, emits connection_lost, and
\* connect_to_server disables the button
ConnectSocket(refused) ==
    /\ pc[UI] = "idle" /\ t_enabled
    /\ t_made < MaxSockets
    /\ t_made' = t_made + 1
    /\ t_socket' = t_made'
    /\ IF refused
       THEN Go(UI, "idle") /\ t_enabled' = FALSE /\ UNCHANGED t_connected
       ELSE Go(UI, "set_running") /\ t_connected' = t_made' /\ UNCHANGED t_enabled
    /\ UNCHANGED <<ui_then, t_running, t_closed, w_ref, t_pending, t_faults>>

\* connect: self.running = True, then send_character_data
ConnectSetRunning ==
    /\ pc[UI] = "set_running"
    /\ t_running' = TRUE
    /\ Go(UI, "check") /\ ui_then' = "start"
    /\ UNCHANGED <<t_socket, t_closed, t_made, t_connected, w_ref, t_enabled,
                   t_pending, t_faults>>

\* connect: threading.Thread(target=self.listen_for_messages).start(), and
\* connect_to_server disables the button
ConnectStartThread ==
    /\ pc[UI] = "start"
    /\ pc' = [pc EXCEPT ![UI] = "idle", ![t_made] = "loop"]
    /\ ui_then' = "idle"
    /\ t_enabled' = FALSE
    /\ UNCHANGED <<t_running, t_socket, t_closed, t_made, t_connected, w_ref,
                   t_pending, t_faults>>

\* listen_for_messages: while self.running, and the self.socket of
\* self.socket.recv(4096); on None it is an AttributeError and the thread ends
ListenLoop(w) ==
    /\ Running
    /\ pc[w] = "loop"
    /\ IF ~t_running
       THEN Go(w, "clear_running") /\ UNCHANGED <<w_ref, t_faults>>
       ELSE IF t_socket = 0
       THEN /\ Go(w, "ended")
            /\ t_faults' = t_faults \cup {<<w, "AttributeError">>}
            /\ UNCHANGED w_ref
       ELSE /\ Go(w, "recv")
            /\ w_ref' = [w_ref EXCEPT ![w] = t_socket]
            /\ UNCHANGED t_faults
    /\ UNCHANGED <<ui_then, t_running, t_socket, t_closed, t_made, t_connected,
                   t_enabled, t_pending>>

\* recv returns a message (start_test or not): the loop goes round
ListenReceives(w) ==
    /\ Running
    /\ pc[w] = "recv"
    /\ w_ref[w] \notin t_closed
    /\ Go(w, "loop")
    /\ UNCHANGED <<ui_then, t_running, t_socket, t_closed, t_made, t_connected,
                   w_ref, t_enabled, t_pending, t_faults>>

\* recv returns nothing or raises (the peer closed or reset, the socket was
\* closed here): break, and disconnect
ListenBreaks(w) ==
    /\ Running
    /\ pc[w] = "recv"
    /\ Go(w, "clear_running")
    /\ UNCHANGED <<ui_then, t_running, t_socket, t_closed, t_made, t_connected,
                   w_ref, t_enabled, t_pending, t_faults>>

ThreadsNext ==
    \/ SheetChange /\ UNCHANGED beside_threads
    \/ SendDataCheck /\ UNCHANGED beside_threads
    \/ \E fails \in BOOLEAN : SendDataSendall(fails) /\ UNCHANGED beside_threads
    \/ \E t \in {UI} \cup Workers : DisconnectClearRunning(t) /\ UNCHANGED beside_threads
    \/ \E t \in {UI} \cup Workers : DisconnectTestSocket(t) /\ UNCHANGED beside_threads
    \/ \E t \in {UI} \cup Workers : DisconnectClose(t) /\ UNCHANGED beside_threads
    \/ \E t \in {UI} \cup Workers : DisconnectClearSocket(t) /\ UNCHANGED beside_threads
    \/ \E t \in {UI} \cup Workers : DisconnectEmit(t) /\ UNCHANGED beside_threads
    \/ OnConnectionLost /\ UNCHANGED beside_threads
    \/ \E refused \in BOOLEAN : ConnectSocket(refused) /\ UNCHANGED beside_threads
    \/ ConnectSetRunning /\ UNCHANGED beside_threads
    \/ ConnectStartThread /\ UNCHANGED beside_threads
    \/ \E w \in Workers : ListenLoop(w) /\ UNCHANGED beside_threads
    \/ \E w \in Workers : ListenReceives(w) /\ UNCHANGED beside_threads
    \/ \E w \in Workers : ListenBreaks(w) /\ UNCHANGED beside_threads

ThreadsSpec == Init /\ [][ThreadsNext]_vars

\* a step of the listen_for_messages thread w that needs nothing but the
\* processor: its loop test, its disconnect, and the return of a recv on a
\* socket that was closed here
WorkerStep(w) ==
    /\ \/ ListenLoop(w)
       \/ w_ref[w] \in t_closed /\ ListenBreaks(w)
       \/ DisconnectClearRunning(w)
       \/ DisconnectTestSocket(w)
       \/ DisconnectClose(w)
       \/ DisconnectClearSocket(w)
       \/ DisconnectEmit(w)
    /\ UNCHANGED beside_threads

\* a step of the UI thread inside a call it has begun (the user's clicks and
\* edits are not among them)
UIStep ==
    /\ \/ SendDataCheck
       \/ \E fails \in BOOLEAN : SendDataSendall(fails)
       \/ DisconnectClearRunning(UI)
       \/ DisconnectTestSocket(UI)
       \/ DisconnectClose(UI)
       \/ DisconnectClearSocket(UI)
       \/ DisconnectEmit(UI)
       \/ OnConnectionLost
       \/ ConnectSetRunning
       \/ ConnectStartThread
    /\ UNCHANGED beside_threads

\* the threads under a scheduler that lets every thread that can run, run,
\* and with every recv on a closed socket returning
ThreadsLiveSpec ==
    ThreadsSpec /\ WF_vars(UIStep) /\ \A w \in Workers : WF_vars(WorkerStep(w))
(***************************************************************************)
(* The claims.                                                             *)
(***************************************************************************)
TilesOfType(tiles, tile_type) ==
    Cardinality({i \in DOMAIN tiles : tiles[i].tile_type = tile_type})

AllRevealed(tiles) == \A i \in DOMAIN tiles : tiles[i].is_revealed

\* a confirm of the current test has run, with these counts
Confirmed == last_confirm # << >>
ConfirmedSuccesses == last_confirm[1]
ConfirmedDifficulty == last_confirm[2]

\* C1: a pool built for s successes and c complications holds exactly s + c
\* tiles, s of them Success and c Complication, on the narrator's console
\* and, once the player has confirmed, in the player's draw view.
C1_PoolComposition ==
    /\ Len(n_tiles) = n_traits + n_difficulty
    /\ TilesOfType(n_tiles, TILE_TYPE_SUCCESS) = n_traits
    /\ TilesOfType(n_tiles, TILE_TYPE_COMPLICATION) = n_difficulty
    /\ Confirmed =>
          /\ Len(p_tiles) = ConfirmedSuccesses + ConfirmedDifficulty
          /\ TilesOfType(p_tiles, TILE_TYPE_SUCCESS) = ConfirmedSuccesses
          /\ TilesOfType(p_tiles, TILE_TYPE_COMPLICATION) = ConfirmedDifficulty

\* C2: after a confirm with k selected traits in a test of difficulty d,
\* revealing every tile of the pool gives the tally (k, d), and the
\* draw_result built from it carries successes = k and complications = d.
C2_FullRevealResult ==
    Confirmed =>
        LET revealed == [i \in DOMAIN p_tiles |-> PlayerReveal(p_tiles[i])]
        IN  /\ get_results(revealed) = <<ConfirmedSuccesses, ConfirmedDifficulty>>
            /\ result_message(revealed) =
                  Message("draw_result", ConfirmedSuccesses, ConfirmedDifficulty)

\* C3: a start_test received in Idle stores the received parameters and
\* opens trait selection; there a click on a trait with non-empty text
\* toggles its selection, and a click on a trait with empty text selects
\* nothing.
C3_StartTestOpensSelection ==
    [][ /\ \A m \in StartTestMessages :
              (Phase = "Idle" /\ ReceiveStartTest(m)) =>
                  /\ current_test_data' = m
                  /\ Phase' = "TraitSelectionOpen"
        /\ \A i \in Traits :
              (Phase = "TraitSelectionOpen" /\ ClickTrait(i)) =>
                  IF get_text(text[i]) # ""
                  THEN is_selected' = [is_selected EXCEPT ![i] = ~is_selected[i]]
                  ELSE is_selected' = is_selected
      ]_vars

\* a test opened from Idle in which a trait with text is selected and a
\* trait without text, though clicked or not, is not
C3_Witness ==
    /\ Phase = "TraitSelectionOpen"
    /\ current_test_data \in StartTestMessages
    /\ \E i, j \in Traits :
          /\ get_text(text[i]) # "" /\ is_selected[i]
          /\ get_text(text[j]) = "" /\ is_selectable[j] /\ ~is_selected[j]

\* C4: a confirm in TraitSelectionOpen succeeds: the player is then in
\* PoolBuilt, with as many Success tiles as traits were selected and as many
\* Complication tiles as the stored difficulty (also with no trait selected).
C4_ConfirmBuildsPool ==
    Confirmed =>
        /\ p_alive
        /\ Phase = "PoolBuilt"
        /\ TilesOfType(p_tiles, TILE_TYPE_SUCCESS) = ConfirmedSuccesses
        /\ TilesOfType(p_tiles, TILE_TYPE_COMPLICATION) = ConfirmedDifficulty

\* C5: once a test is confirmed and no tile of its pool is left unrevealed,
\* the result has been transmitted and the player is back in Idle with the
\* test parameters cleared, with no further action of the user.
C5_ResultSentWhenAllRevealed ==
    (Confirmed /\ AllRevealed(p_tiles)) =>
        /\ Phase = "Idle"
        /\ current_test_data = EmptyDict
        /\ Len(results_sent) = 1

\* C6: a cancel in TraitSelectionOpen or in PoolBuilt leaves the player in
\* Idle with no trait selected or selectable, the hero sheet shown, the test
\* parameters cleared, and nothing transmitted.
C6_CancelReturnsToIdle ==
    [][ (Phase \in {"TraitSelectionOpen", "PoolBuilt"} /\ CancelTest) =>
            /\ Phase' = "Idle"
            /\ \A i \in Traits : ~is_selected'[i] /\ ~is_selectable'[i]
            /\ stack_current' = "sheet"
            /\ current_test_data' = EmptyDict
            /\ wire' = wire
            /\ results_sent' = results_sent
      ]_vars

\* a test was cancelled and the player is idle again
C6_Witness ==
    /\ test_fate = "cancelled"
    /\ Phase = "Idle"
    /\ current_test_data = EmptyDict
    /\ results_sent = << >>

\* C7: no test transmits two draw_result commands, and a test that is over
\* without having been cancelled or interrupted has transmitted exactly one.
C7_ExactlyOneResult ==
    /\ Len(results_sent) <= 1
    /\ (test_fate = "sent" \/ (test_fate = "open" /\ ~p_alive)) =>
          Len(results_sent) = 1

\* a counted draw was accepted on the pool now shown
DrawBegun == ~begin_enabled

\* C8: in a counted draw with an accepted quota N, 1 <= N <= pool size,
\* every counted click revealed a tile of its own, never more than N tiles
\* are revealed, the tiles stay active until the N-th reveal and are all
\* inactive from then on.
C8_CountedDrawRevealsExactlyN ==
    DrawBegun =>
        /\ 1 <= draw_limit /\ draw_limit <= Len(n_tiles)
        /\ RevealedCount(n_tiles) = drawn_count
        /\ RevealedCount(n_tiles) <= draw_limit
        /\ RevealedCount(n_tiles) < draw_limit =>
              \A i \in DOMAIN n_tiles : n_tiles[i].is_active
        /\ RevealedCount(n_tiles) = draw_limit =>
              \A i \in DOMAIN n_tiles : ~n_tiles[i].is_active /\ ~Clickable(n_tiles[i])

\* a draw of N >= 2 tiles out of a larger pool is complete, tiles of both
\* types revealed
C8_Witness ==
    /\ DrawBegun
    /\ draw_limit >= 2 /\ draw_limit < Len(n_tiles)
    /\ RevealedCount(n_tiles) = draw_limit
    /\ RevealedOfType(n_tiles, TILE_TYPE_SUCCESS) >= 1
    /\ RevealedOfType(n_tiles, TILE_TYPE_COMPLICATION) >= 1

\* C9: a request to draw more tiles than the pool holds, or none or fewer,
\* changes no tile and no draw counter and emits no completion.
C9_BadQuotaRejected ==
    [][ \A n \in (0 - 1)..MaxDrawCount :
            (BeginDraw(n) /\ (n > Len(n_tiles) \/ n <= 0)) =>
                UNCHANGED <<n_tiles, draw_limit, drawn_count, successes_drawn,
                            complications_drawn, finished, begin_enabled>>
      ]_vars

\* a request for more tiles than the pool holds was refused: every tile is
\* still face-down and inactive
C9_Witness ==
    /\ results_display.kind = "toomany"
    /\ results_display.a > Len(n_tiles)
    /\ begin_enabled
    /\ \A i \in DOMAIN n_tiles : ~n_tiles[i].is_active /\ ~n_tiles[i].is_revealed

\* C10: in a counted draw drawFinished has not fired while fewer tiles than
\* the quota are revealed, and from the reveal that exhausts the quota it has
\* fired once, with the numbers of revealed Success and Complication tiles,
\* which sum to the quota.
C10_DrawFinishedOnce ==
    DrawBegun =>
        IF drawn_count < draw_limit
        THEN finished = << >>
        ELSE /\ finished = << <<RevealedOfType(n_tiles, TILE_TYPE_SUCCESS),
                                RevealedOfType(n_tiles, TILE_TYPE_COMPLICATION)>> >>
             /\ finished[1][1] + finished[1][2] = draw_limit

\* drawFinished fired for a draw of part of the pool, with both counts
\* positive
C10_Witness ==
    /\ DrawBegun
    /\ Len(finished) = 1
    /\ finished[1][1] >= 1 /\ finished[1][2] >= 1
    /\ draw_limit < Len(n_tiles)

\* the pool keeps its tiles: the same number, each of its type, and no
\* revealed tile hidden again
PoolKept(before, after) ==
    /\ Len(after) = Len(before)
    /\ \A i \in DOMAIN before :
          /\ after[i].tile_type = before[i].tile_type
          /\ before[i].is_revealed => after[i].is_revealed

\* the steps of a counted draw that leave the pool in place: all the others
\* of the narrator's console run update_grid_setup, which replaces it
DrawStep ==
    \/ \E n \in MinDrawCount..MaxDrawCount : BeginDraw(n)
    \/ \E i \in 1..(MaxTraitsForTest + MaxDifficulty) : ClickTile(i)

\* C11: from the creation of a pool until it is replaced, its size and its
\* counts of Success and Complication tiles never change, and a tile that is
\* revealed is never hidden again.
C11_PoolFixedRevealMonotone ==
    [][DrawStep =>
          /\ PoolKept(n_tiles, n_tiles')
          /\ TilesOfType(n_tiles', TILE_TYPE_SUCCESS) = TilesOfType(n_tiles, TILE_TYPE_SUCCESS)
          /\ TilesOfType(n_tiles', TILE_TYPE_COMPLICATION) =
                TilesOfType(n_tiles, TILE_TYPE_COMPLICATION)]_vars

\* a finished draw that left revealed and unrevealed tiles in the pool
C11_Witness ==
    /\ finished # << >>
    /\ \E i \in DOMAIN n_tiles : n_tiles[i].is_revealed
    /\ \E i \in DOMAIN n_tiles : ~n_tiles[i].is_revealed

\* C12: a click on a tile that is already revealed changes nothing: not the
\* tile, not any other tile, not the tally of the draw, and revealing a
\* revealed tile gives the same tile.
C12_RevealIdempotent ==
    [][\A i \in DOMAIN n_tiles :
          (n_tiles[i].is_revealed /\ ClickTile(i)) =>
              /\ NarratorReveal(n_tiles[i]) = n_tiles[i]
              /\ UNCHANGED <<n_tiles, drawn_count, successes_drawn,
                             complications_drawn, finished, results_display>>]_vars

\* a draw under way in which a revealed tile can still be clicked
C12_Witness ==
    /\ DrawBegun
    /\ drawn_count < draw_limit
    /\ \E i \in DOMAIN n_tiles : n_tiles[i].is_revealed /\ n_tiles[i].is_active


\* the tiles a click can reveal
Revealable(tiles) == {i \in DOMAIN tiles : Clickable(tiles[i])}

\* C15: the danger value has no effect on the draw: a step that changes
\* only the danger leaves the pool's composition, the tiles that can be
\* revealed, the progress of the draw and its tally as they were, as in the
\* run in which the slider stays where it is.
C15_DangerNoEffect ==
    [][n_danger' # n_danger =>
          /\ Len(n_tiles') = Len(n_tiles)
          /\ TilesOfType(n_tiles', TILE_TYPE_SUCCESS) = TilesOfType(n_tiles, TILE_TYPE_SUCCESS)
          /\ Cardinality(Revealable(n_tiles')) = Cardinality(Revealable(n_tiles))
          /\ RevealedCount(n_tiles') = RevealedCount(n_tiles)
          /\ RevealedOfType(n_tiles', TILE_TYPE_SUCCESS) =
                RevealedOfType(n_tiles, TILE_TYPE_SUCCESS)
          /\ UNCHANGED <<drawn_count, successes_drawn, complications_drawn>>]_vars


\* C13: the confirm clears selection mode: once the confirm of a test has
\* run, and in PoolBuilt, no trait is selectable.
C13_ConfirmClearsSelection ==
    (Phase = "PoolBuilt" \/ (Confirmed /\ panel_visible)) =>
        \A i \in Traits : ~is_selectable[i]

\* C14: the controller has no terminal state: in every reachable state
\* outside Idle a step back to Idle (the cancel, or the send that completes
\* the test) can be taken.
C14_IdleReachable ==
    Phase # "Idle" => ENABLED (CancelTest \/ SendResults)


HasCommand(message) == \E item \in message : item[1] = "command"

Logged(texts, entry) == \E k \in DOMAIN texts : texts[k] = entry

\* C16: a connect that is made transmits the connect command, with the
\* character data as it is, before anything else on the new connection, and
\* the receive loop runs only on a connection whose first command was that
\* connect; a connect that is refused logs the failure, transmits nothing
\* and starts no receive loop.
C16_ConnectFirst ==
    [][ /\ ConnectToServer("made") =>
              /\ wire' = <<Message("connect", 0, 0)>>
              /\ sheet_sent' = get_character_data(text)
              /\ running' /\ listening'
        /\ ConnectToServer("refused") =>
              /\ Logged(connect_report', "Connection failed")
              /\ wire' = wire /\ sheet_sent' = sheet_sent
              /\ ~running' /\ ~listening' /\ stale' = stale
        /\ listening' => (wire' # << >> /\ wire'[1].command = "connect")
      ]_vars

\* the receive loop runs on a connection on which only the connect command,
\* with a trait written on the sheet, has been transmitted
C16_Witness ==
    /\ listening /\ running
    /\ connect_report = <<"Connected">>
    /\ wire = <<Message("connect", 0, 0)>>
    /\ \E i \in Traits : sheet_sent[i] # ""

\* C17: connection_lost is emitted by disconnect() once for each passage
\* from connected to disconnected: never twice since the connection was made.
C17_OneNotificationPerLoss ==
    lost_emitted <= 1

\* C18: every transport error met by the receive loop of an open connection
\* (the peer closed, an OS error such as a reset, a payload that is not JSON
\* or not UTF-8) ends the loop, leaves the client disconnected and notifies
\* the window.
C18_TransportErrorDisconnects ==
    [][ ((\E event \in BreakingEvents : ReceiveLoopBreaks(event))
          \/ ReceiveLoopDies("bad_utf8")) =>
            /\ ~listening'
            /\ ~running' /\ sock' = "none"
            /\ lost_emitted' = lost_emitted + 1
            /\ status_label' = "Disconnected" /\ connect_enabled'
      ]_vars

\* C19: a payload that is not JSON, or is JSON but not a dict with a command,
\* ends the connection: the client is disconnected and connection_lost is
\* emitted.
C19_MalformedPayloadDisconnects ==
    [][ \/ ReceiveLoopBreaks("bad_json")
        \/ ReceiveLoopDies("not_object")
        \/ \E m \in ReceivedObjects : ~HasCommand(m) /\ ReceiveMessage(m)
        =>
            /\ ~running' /\ sock' = "none"
            /\ lost_emitted' = lost_emitted + 1
      ]_vars

\* C20: a dict whose command is not start_test is ignored: the test session,
\* the stored test parameters and the connection are as before, nothing is
\* reported, and the receive loop goes on.
C20_OtherCommandIgnored ==
    [][ \A m \in ReceivedObjects :
          (HasCommand(m) /\ Get(m, "command", "None") # "start_test"
             /\ ReceiveMessage(m)) =>
              /\ Phase' = Phase
              /\ listening'
              /\ UNCHANGED <<current_test_data, is_selectable, is_selected,
                             panel_visible, confirm_visible, send_visible,
                             stack_current, p_tiles, running, sock, wire,
                             status_label, connect_enabled, lost_emitted, p_alive>>
      ]_vars

\* another command was received during a test, which is still open on a
\* connection that is still listened to
C20_Witness ==
    /\ last_received = "other_command"
    /\ Phase = "TraitSelectionOpen"
    /\ current_test_data \in StartTestMessages
    /\ running /\ listening


\* the user edits a hexagon of the sheet, the sendall succeeding or not
EditStep(fails) == \E i \in Traits, plain \in TraitTexts : EditTrait(i, plain, fails)

\* the test session, as the widgets and the stored parameters show it
session == <<current_test_data, is_selectable, is_selected, panel_visible,
             confirm_visible, send_visible, stack_current, p_tiles>>

\* C21: a sheet change while the client is not connected (never connected,
\* the connect refused, or after a disconnect) transmits nothing, emits
\* nothing and leaves the client as it was.
C21_SendWhileDisconnectedNoOp ==
    [][ (~(sock = "open" /\ running)
           /\ \E fails \in BOOLEAN : EditStep(fails) \/ ToggleSheetLock(fails)) =>
              UNCHANGED connection ]_vars

\* the sheet was unlocked and a trait written after a connect was refused
C21_Witness ==
    /\ sock = "unconnected" /\ ~running
    /\ connect_report = <<"Connection failed", "Disconnected">>
    /\ wire = << >>
    /\ ~is_locked
    /\ \E i \in Traits : text[i] = "Veteran"

\* C22: while the client is connected every edit of a trait transmits one
\* update_sheet, after what was transmitted before, carrying the sheet as it
\* is after the edit (a hexagon showing its placeholder counts as empty);
\* while it is not connected an edit transmits nothing.
C22_EditSendsUpdate ==
    [][ EditStep(FALSE) =>
          IF running
          THEN /\ wire' = Append(wire, Message("update_sheet", 0, 0))
               /\ sheet_sent' = [i \in Traits |->
                                    IF text'[i] = PLACEHOLDER THEN "" ELSE text'[i]]
          ELSE wire' = wire /\ sheet_sent' = sheet_sent ]_vars

\* two edits were transmitted after the connect, in order, and the last
\* carries the sheet as it is: one trait written, one hexagon on its placeholder
C22_Witness ==
    /\ running
    /\ wire = <<Message("connect", 0, 0), Message("update_sheet", 0, 0),
                Message("update_sheet", 0, 0)>>
    /\ \E i, j \in Traits :
          /\ text[i] = "Veteran" /\ sheet_sent[i] = "Veteran"
          /\ text[j] = PLACEHOLDER /\ sheet_sent[j] = ""

\* C23: whenever the client is not connected, after a lost connection or a
\* refused connect, the connect button is enabled and the status shows
\* Disconnected.
C23_RetryPossibleAfterLoss ==
    ~running => (connect_enabled /\ status_label = "Disconnected")

\* C24 as stated: a sendall that raises changes neither the connection nor
\* the test session.
C24_FailedSendKeepsConnection ==
    [][ (EditStep(TRUE) \/ ToggleSheetLock(TRUE)) =>
            UNCHANGED <<running, sock, session>> ]_vars

\* C24, amended: a sendall that raises drops the data and is not retried;
\* send_data disconnects the client (running cleared, the socket closed,
\* connection_lost emitted, the status Disconnected and the connect button
\* enabled); the test session is unchanged.
C24_FailedSendDisconnects ==
    [][ (EditStep(TRUE) \/ ToggleSheetLock(TRUE)) =>
            /\ running /\ ~running'
            /\ sock' = "none"
            /\ wire' = << >>
            /\ lost_emitted' = lost_emitted + 1
            /\ status_label' = "Disconnected" /\ connect_enabled'
            /\ UNCHANGED session ]_vars

\* a send failed during a test: the client is disconnected, the thread that
\* was receiving is left blocked, and the test is still open
C24_Witness ==
    /\ ~running /\ sock = "none"
    /\ lost_emitted = 1
    /\ stale = 1 /\ ~listening
    /\ Phase = "TraitSelectionOpen"


\* C30: a start_test received while a test is in progress replaces the
\* stored test parameters with the new ones and leaves the player in
\* TraitSelectionOpen, on the hero sheet with the Confirm button; nothing is
\* transmitted for the interrupted test, and the traits selected before stay
\* selected.
C30_StartTestDuringTest ==
    [][ \A m \in StartTestMessages :
          (Phase \in {"TraitSelectionOpen", "PoolBuilt"} /\ ReceiveStartTest(m)) =>
              /\ current_test_data' = m
              /\ Phase' = "TraitSelectionOpen"
              /\ confirm_visible' /\ ~send_visible'
              /\ is_selected' = is_selected
              /\ \A i \in Traits : is_selectable'[i]
              /\ wire' = wire ]_vars

\* a start_test was read while a test was open, and a trait is selected
C30_Witness ==
    /\ last_received = "start_test_in_test"
    /\ Phase = "TraitSelectionOpen"
    /\ \E i \in Traits : is_selected[i]
    /\ \E i \in Traits : ~is_selected[i]


\* C25: every character record transmitted has one entry for each hexagon
\* of the sheet, and a load fills the sheet from the file: the file's entry
\* where it has one, the empty string where its list is shorter or missing,
\* and nothing of what lies beyond the sheet.
C25_RecordLengthFixed ==
    /\ sheet_sent # << >> => Len(sheet_sent) = NumTraits
    /\ \A loaded \in last_loaded :
          \A i \in Traits :
              get_text(text[i]) = (IF i <= Len(loaded) THEN loaded[i] ELSE "")

\* a sheet loaded while connected from a file whose list is one entry
\* short: the record transmitted last has the loaded traits and an empty
\* string after them
C25_Witness ==
    /\ running /\ is_locked
    /\ last_loaded = {[i \in 1..(NumTraits - 1) |-> "Veteran"]}
    /\ Len(wire) = NumTraits + 2
    /\ \A i \in Traits :
          /\ text[i] = (IF i < NumTraits THEN "Veteran" ELSE "")
          /\ sheet_sent[i] = text[i]


\* the place of the last event of a connection among kinds, 0 when none
LastEvent(c, kinds) ==
    LET places == {i \in DOMAIN server_log :
                      server_log[i][1] = c /\ server_log[i][2] \in kinds}
    IN IF places = {} THEN 0 ELSE CHOOSE i \in places : \A j \in places : j <= i

HeroFields == {"name", "concept", "traits", "resources", "scars", "lessons",
               "misfortunes", "adrenaline", "confusion"}

Fields(obj) == {item \in obj : item[1] \in HeroFields}

C28_SendOnOpenSocket ==
    pc[UI] = "sendall" => (t_socket # 0 /\ t_socket \notin t_closed)

\* the threads left over from an earlier connection
Leftover == {w \in Workers : pc[w] \notin {"unborn", "ended"} /\ w # t_connected}

\* C29: a thread left over from an earlier connection neither clears
\* running nor closes the socket of the connection made since, and
\* whenever running is set self.socket is the open socket of the last
\* connection made.
C29_LeftoverLeavesNewConnection ==
    [][ /\ \A w \in Leftover :
              /\ DisconnectClearRunning(w) => ~t_running
              /\ DisconnectClose(w) => t_socket # t_connected
        /\ t_running' => (t_socket' = t_connected' /\ t_socket' \notin t_closed')
      ]_vars


\* C31: every trait a confirm counts as a success has non-empty text at the
\* moment of the confirm, so the count is at most the number of traits with
\* text (and at most the number of hexagons of the sheet).
C31_CountedTraitsHaveText ==
    [][ConfirmTraits =>
          /\ \A i \in Traits : is_selected[i] => get_text(text[i]) # ""
          /\ get_selected_traits_count
                <= Cardinality({i \in Traits : get_text(text[i]) # ""})
          /\ get_selected_traits_count <= NumTraits
      ]_vars

\* C32: whenever the player controller is Idle, no trait is selected, no
\* trait is selectable and the stored test parameters are empty; so a test
\* opened from Idle starts with no trait selected.
C32_IdleIsClean ==
    /\ Phase = "Idle" =>
          /\ \A i \in Traits : ~is_selected[i] /\ ~is_selectable[i]
          /\ current_test_data = EmptyDict
    /\ last_received = "start_test" => \A i \in Traits : ~is_selected[i]

\* a test was cancelled, the player is idle with a trait that could have been
\* selected, and the sheet has since been unlocked
C32_Witness ==
    /\ Phase = "Idle"
    /\ test_fate = "cancelled"
    /\ ~is_locked
    /\ \E i \in Traits : get_text(text[i]) # ""

DrawInProgress == ~begin_enabled /\ finished = << >>

\* a step in which the traits count, the difficulty or the danger changes,
\* or Reset Test is pressed
ChangesTest ==
    \/ n_traits' # n_traits
    \/ n_difficulty' # n_difficulty
    \/ n_danger' # n_danger
    \/ ResetTest

FaceDownInactive(tiles) ==
    \A i \in DOMAIN tiles : ~tiles[i].is_revealed /\ ~tiles[i].is_active

\* C34: a change of the traits count, the difficulty or the danger, or a
\* Reset Test, made while a counted draw is in progress, replaces the pool
\* with a fresh one (as many tiles as the parameters say, all face-down and
\* inactive) and emits no completion; while no draw is begun no tile can be
\* drawn and no completion is emitted; and a draw begins only with the
\* counters at zero and a quota of at least one.
C34_AbandonedDrawIsDropped ==
    [][ /\ (DrawInProgress /\ ChangesTest) =>
              /\ FaceDownInactive(n_tiles')
              /\ Len(n_tiles') = n_traits' + n_difficulty'
              /\ TilesOfType(n_tiles', TILE_TYPE_SUCCESS) = n_traits'
              /\ begin_enabled'
              /\ finished' = finished
        /\ begin_enabled =>
              /\ FaceDownInactive(n_tiles)
              /\ finished' = finished \/ finished' = << >>
              /\ UNCHANGED <<drawn_count, successes_drawn, complications_drawn>>
                    \/ ~begin_enabled'
        /\ (begin_enabled /\ ~begin_enabled') =>
              /\ drawn_count' = 0 /\ successes_drawn' = 0 /\ complications_drawn' = 0
              /\ draw_limit' >= 1
              /\ finished' = << >>
      ]_vars

\* a draw of two or more tiles was abandoned after its first tile by a
\* change of the danger: the console waits for Begin Draw
C34_Witness ==
    /\ begin_enabled
    /\ n_danger # MinDanger
    /\ finished = << >>
    /\ drawn_count > 0 /\ drawn_count < draw_limit
    /\ FaceDownInactive(n_tiles)
    /\ Len(n_tiles) >= 2

\* C35: once disconnect has closed the socket of a connection, the
\* listen_for_messages thread started for that connection ends (or the
\* program has ended), given that its recv on the closed socket returns.
C35_WorkerTerminates ==
    \A w \in Workers :
        (w \in t_closed /\ pc[w] \notin {"unborn", "ended"})
            ~> (pc[w] = "ended" \/ ~Running)

\* C36: a chunk is parsed as one message: when two start_test messages
\* arrive in one read the chunk does not parse, neither test is started (the
\* test session is as it was), the receive loop ends and the client is
\* disconnected, as after a lost connection. (Only a step of the receive
\* loop on a payload leaves last_received other than "none".)
C36_CoalescedChunkDisconnects ==
    [][ last_received' # "none" =>
        \A chunk \in Chunks :
          (Len(chunk) > Len(Document(EmptyDict)) /\ ReceiveChunk(chunk)) =>
              /\ UNCHANGED session
              /\ test_fate' = test_fate
              /\ ~listening'
              /\ ~running' /\ sock' = "none"
              /\ lost_emitted' = lost_emitted + 1
              /\ status_label' = "Disconnected" /\ connect_enabled'
      ]_vars

\* two start_test messages were read as one chunk while the player was
\* idle: the player is still idle, and disconnected
C36_Witness ==
    /\ last_received = "bad_chunk"
    /\ Phase = "Idle" /\ current_test_data = EmptyDict
    /\ ~running /\ ~listening
    /\ status_label = "Disconnected"

\* C37: when a counted draw is complete the result shows that the hero
\* leaves the scene exactly when the danger d is between 1 and 4 and at
\* least d complications were drawn; with danger 0 it is never shown.
C37_LeavesSceneRule ==
    results_display.kind = "final" =>
        /\ results_display.b = complications_drawn
        /\ results_display.leaves <=>
              (n_danger \in 1..4 /\ complications_drawn >= n_danger)
        /\ n_danger = 0 => ~results_display.leaves

\* a draw of exactly four complications is complete at danger 4, and the
\* result shows that the hero leaves the scene
C37_Witness ==
    /\ results_display.kind = "final"
    /\ n_danger = 4
    /\ complications_drawn = 4
    /\ results_display.leaves

====
